---- MODULE Spec2Model ----
(***************************************************************************)
(* A model of the MedBot medical assistant: the triage classifier, the     *)
(* emergency gate, the metric calculators and the vital-sign interpreter   *)
(* of medical_utils.py, and the chat turn handler of app.py.               *)
(*                                                                         *)
(* Python strings are sequences of one-character strings, so that          *)
(* str.lower(), the substring test `k in s`, re.search and sorted() are    *)
(* computed on characters as the interpreter computes them.                *)
(***************************************************************************)
EXTENDS Integers, Sequences, FiniteSets, TLC

VARIABLES
    pc,                 \* the calls that have returned
    message,            \* assess_urgency / is_emergency: the message
    assessment,         \* the tier assess_urgency returned
    emergency,          \* what is_emergency returned
    medications,        \* medication_interaction_check: the list
    interaction_result, \* its returned record
    query,              \* search_drugs: the query
    search_results,     \* the generic names of its result list, in order
    weight_kg,          \* calculate_bmi: weight, in kg
    height_q,           \* calculate_bmi: height, in quarters of a metre
    bmi_result,         \* its returned record, or the exception raised
    risk_factors,       \* assess_cardiovascular_risk: the tag list
    age,                \* its age argument
    risk_result,        \* its returned record
    gender,             \* generate_health_tips: the gender (its age is age)
    health_tips,        \* its returned list
    vitals,             \* validate_vital_signs: the vitals dict
    vitals_result,      \* its results dict
    api_key,            \* app.py: the sidebar's API key field
    user_profile,       \* st.session_state.user_profile
    messages,           \* st.session_state.messages
    chat_history,       \* st.session_state.chat_history
    requests,           \* every payload posted to the completion endpoint
    last_turn           \* the event the last script run handled

vars == <<pc, message, assessment, emergency, medications, interaction_result,
          query, search_results, weight_kg, height_q, bmi_result, risk_factors,
          age, risk_result, gender, health_tips, vitals, vitals_result, api_key,
          user_profile, messages, chat_history, requests, last_turn>>

triage_vars == <<message, assessment, emergency>>
meds_vars == <<medications, interaction_result>>
drug_vars == <<query, search_results>>
bmi_vars == <<weight_kg, height_q, bmi_result>>
risk_vars == <<risk_factors, age, risk_result, gender, health_tips>>
vital_vars == <<vitals, vitals_result>>
chat_vars == <<api_key, user_profile, messages, chat_history, requests, last_turn>>

\* The value of a variable that the specification at hand does not use.
Idle == "idle"
\* Python's None, and the marker of a call that has not returned yet.
None == "None"
Pending == "pending"

(***************************************************************************)
(* Bounds of the model.                                                    *)
(***************************************************************************)
\* A message is at most MaxFrags vocabulary fragments, joined by a separator.
MaxFrags == 2

(***************************************************************************)
(* Characters and strings.                                                 *)
(***************************************************************************)
\* str.lower() on the letters the model uses.
UpperToLower ==
    [A |-> "a", B |-> "b", C |-> "c", D |-> "d", E |-> "e", F |-> "f",
     G |-> "g", H |-> "h", I |-> "i", J |-> "j", K |-> "k", L |-> "l",
     M |-> "m", N |-> "n", O |-> "o", P |-> "p", Q |-> "q", R |-> "r",
     S |-> "s", T |-> "t", U |-> "u", V |-> "v", W |-> "w", X |-> "x",
     Y |-> "y", Z |-> "z"]

LowerChar(c) == IF c \in DOMAIN UpperToLower THEN UpperToLower[c] ELSE c

\* str.upper() on the same letters: the inverse table.
LowerToUpper ==
    [l \in {UpperToLower[u] : u \in DOMAIN UpperToLower} |->
        CHOOSE u \in DOMAIN UpperToLower : UpperToLower[u] = l]

UpperChar(c) == IF c \in DOMAIN LowerToUpper THEN LowerToUpper[c] ELSE c

\* s.lower()
lower(s) == [i \in 1..Len(s) |-> LowerChar(s[i])]

\* s.upper()
upper(s) == [i \in 1..Len(s) |-> UpperChar(s[i])]

\* The characters in code-point order: str comparison compares code points.
CodeOrder ==
    <<"\n"," ","'","0","1","2","3","4","5","6","7","8","9","A","B","C","D","E","F","G","H","I","J","K","L","M","N","O","P","Q","R","S","T","U","V","W","X","Y","Z","a","b","c","d","e","f","g","h","i","j","k","l","m","n","o","p","q","r","s","t","u","v","w","x","y","z">>

\* The rank of each character in that order.
CodeRank ==
    [c \in {CodeOrder[i] : i \in 1..Len(CodeOrder)} |->
        CHOOSE i \in 1..Len(CodeOrder) : CodeOrder[i] = c]

Ord(c) == CodeRank[c]

Digits == {"0", "1", "2", "3", "4", "5", "6", "7", "8", "9"}

\* k occurs in s at position i.
At(s, i, k) ==
    /\ i + Len(k) - 1 <= Len(s)
    /\ \A j \in 1..Len(k) : s[i + j - 1] = k[j]

\* Python's `k in s` on strings.
Contains(s, k) == \E i \in 1..(Len(s) - Len(k) + 1) : At(s, i, k)

\* a < b on strings: lexicographic on code points, a proper prefix first.
StrLess(a, b) ==
    \E i \in 1..(Len(b)) :
        /\ \A j \in 1..(i - 1) : j <= Len(a) /\ a[j] = b[j]
        /\ \/ i = Len(a) + 1
           \/ i <= Len(a) /\ Ord(a[i]) < Ord(b[i])

(***************************************************************************)
(* re.search for the patterns of _check_concerning_patterns: a pattern is  *)
(* a sequence of a literal, ".*" and a group of alternatives, one of       *)
(* which may be \d+.                                                       *)
(***************************************************************************)
Lit(s) == [t |-> "lit", s |-> s]
DotStar == [t |-> "dotstar"]
Alt(digits, alts) == [t |-> "alt", digits |-> digits, alts |-> alts]

RECURSIVE MatchAt(_, _, _, _)
\* The elements k.. of the pattern match s from position i on.
MatchAt(s, i, pat, k) ==
    IF k > Len(pat) THEN TRUE
    ELSE LET e == pat[k] IN
         CASE e.t = "lit" ->
                At(s, i, e.s) /\ MatchAt(s, i + Len(e.s), pat, k + 1)
           [] e.t = "dotstar" ->
                \* "." matches any character but a line break
                \E j \in i..(Len(s) + 1) :
                    /\ \A x \in i..(j - 1) : s[x] # "\n"
                    /\ MatchAt(s, j, pat, k + 1)
           [] e.t = "alt" ->
                \/ \E a \in e.alts :
                       At(s, i, a) /\ MatchAt(s, i + Len(a), pat, k + 1)
                \/ /\ e.digits
                   /\ \E j \in (i + 1)..(Len(s) + 1) :
                          /\ \A x \in i..(j - 1) : s[x] \in Digits
                          /\ MatchAt(s, j, pat, k + 1)

\* re.search(pattern, s)
re_search(pat, s) == \E i \in 1..(Len(s) + 1) : MatchAt(s, i, pat, 1)

(***************************************************************************)
(* medical_utils.py: MedicalUtils, the triage classifier.                  *)
(***************************************************************************)
\* self.emergency_keywords of MedicalUtils
emergency_keywords ==
    <<<<"c","h","e","s","t"," ","p","a","i","n">>, <<"c","a","n","'","t"," ","b","r","e","a","t","h","e">>, <<"d","i","f","f","i","c","u","l","t","y"," ","b","r","e","a","t","h","i","n","g">>,
      <<"s","e","v","e","r","e"," ","b","l","e","e","d","i","n","g">>, <<"s","t","r","o","k","e">>, <<"h","e","a","r","t"," ","a","t","t","a","c","k">>, <<"s","u","i","c","i","d","e">>,
      <<"k","i","l","l"," ","m","y","s","e","l","f">>, <<"o","v","e","r","d","o","s","e">>, <<"s","e","v","e","r","e"," ","h","e","a","d","a","c","h","e">>, <<"u","n","c","o","n","s","c","i","o","u","s">>,
      <<"s","e","i","z","u","r","e">>, <<"c","h","o","k","i","n","g">>, <<"a","l","l","e","r","g","i","c"," ","r","e","a","c","t","i","o","n">>,
      <<"s","e","v","e","r","e"," ","a","b","d","o","m","i","n","a","l"," ","p","a","i","n">>, <<"h","i","g","h"," ","f","e","v","e","r">>, <<"s","e","v","e","r","e"," ","b","u","r","n">>,
      <<"b","r","o","k","e","n"," ","b","o","n","e">>>>

\* self.urgent_keywords of MedicalUtils
urgent_keywords ==
    <<<<"h","i","g","h"," ","f","e","v","e","r">>, <<"s","e","v","e","r","e"," ","p","a","i","n">>, <<"v","o","m","i","t","i","n","g"," ","b","l","o","o","d">>,
      <<"d","i","f","f","i","c","u","l","t","y"," ","s","w","a","l","l","o","w","i","n","g">>, <<"s","u","d","d","e","n"," ","d","i","z","z","i","n","e","s","s">>,
      <<"s","e","v","e","r","e"," ","a","l","l","e","r","g","i","c"," ","r","e","a","c","t","i","o","n">>, <<"p","e","r","s","i","s","t","e","n","t"," ","v","o","m","i","t","i","n","g">>,
      <<"s","e","v","e","r","e"," ","d","e","h","y","d","r","a","t","i","o","n">>, <<"r","a","p","i","d"," ","h","e","a","r","t"," ","r","a","t","e">>, <<"c","o","n","f","u","s","i","o","n">>>>

\* concerning_patterns of _check_concerning_patterns
concerning_patterns ==
    <<
      \* r"pain.*(\d+|ten|severe|unbearable)"
      <<Lit(<<"p","a","i","n">>), DotStar,
        Alt(TRUE, {<<"t","e","n">>, <<"s","e","v","e","r","e">>, <<"u","n","b","e","a","r","a","b","l","e">>})>>,
      \* r"bleeding.*(\d+|hours|days)"
      <<Lit(<<"b","l","e","e","d","i","n","g">>), DotStar, Alt(TRUE, {<<"h","o","u","r","s">>, <<"d","a","y","s">>})>>,
      \* r"fever.*(\d+|high|very)"
      <<Lit(<<"f","e","v","e","r">>), DotStar, Alt(TRUE, {<<"h","i","g","h">>, <<"v","e","r","y">>})>>,
      \* r"can't.*sleep.*(\d+|days|weeks)"
      <<Lit(<<"c","a","n","'","t">>), DotStar, Lit(<<"s","l","e","e","p">>), DotStar,
        Alt(TRUE, {<<"d","a","y","s">>, <<"w","e","e","k","s">>})>>,
      \* r"lost.*weight.*(\d+|pounds|kg)"
      <<Lit(<<"l","o","s","t">>), DotStar, Lit(<<"w","e","i","g","h","t">>), DotStar,
        Alt(TRUE, {<<"p","o","u","n","d","s">>, <<"k","g">>})>>
    >>

\* any(keyword in s for keyword in keywords)
AnyKeywordIn(keywords, s) ==
    \E n \in 1..Len(keywords) : Contains(s, keywords[n])

\* A pattern check that tries the first pattern only.
check_concerning_patterns_first_only(msg) ==
    re_search(concerning_patterns[1], msg)

\* MedicalUtils._check_concerning_patterns
check_concerning_patterns(msg) ==
    \E n \in 1..Len(concerning_patterns) :
        re_search(concerning_patterns[n], msg)

\* The classifier with the urgent keywords checked before the emergency ones.
assess_urgency_urgent_first(msg) ==
    LET message_lower == lower(msg) IN
    IF AnyKeywordIn(urgent_keywords, message_lower) THEN "URGENT"
    ELSE IF AnyKeywordIn(emergency_keywords, message_lower) THEN "EMERGENCY"
    ELSE IF check_concerning_patterns(message_lower) THEN "MODERATE"
    ELSE "LOW"

\* The classifier with MODERATE as the tier of an unmatched message.
assess_urgency_default_moderate(msg) ==
    LET message_lower == lower(msg) IN
    IF AnyKeywordIn(emergency_keywords, message_lower) THEN "EMERGENCY"
    ELSE IF AnyKeywordIn(urgent_keywords, message_lower) THEN "URGENT"
    ELSE "MODERATE"

\* MedicalUtils.assess_urgency: the tier of the returned pair.
assess_urgency(msg) ==
    LET message_lower == lower(msg) IN
    IF AnyKeywordIn(emergency_keywords, message_lower) THEN "EMERGENCY"
    ELSE IF AnyKeywordIn(urgent_keywords, message_lower) THEN "URGENT"
    ELSE IF check_concerning_patterns(message_lower) THEN "MODERATE"
    ELSE "LOW"

(***************************************************************************)
(* app.py: MedicalChatbot, the emergency gate.                             *)
(***************************************************************************)
\* emergency_keywords of MedicalChatbot.is_emergency
gate_emergency_keywords ==
    <<<<"c","h","e","s","t"," ","p","a","i","n">>, <<"c","a","n","'","t"," ","b","r","e","a","t","h","e">>, <<"d","i","f","f","i","c","u","l","t","y"," ","b","r","e","a","t","h","i","n","g">>,
      <<"s","e","v","e","r","e"," ","b","l","e","e","d","i","n","g">>, <<"s","t","r","o","k","e">>, <<"h","e","a","r","t"," ","a","t","t","a","c","k">>, <<"s","u","i","c","i","d","e">>,
      <<"k","i","l","l"," ","m","y","s","e","l","f">>, <<"o","v","e","r","d","o","s","e">>, <<"s","e","v","e","r","e"," ","h","e","a","d","a","c","h","e">>, <<"u","n","c","o","n","s","c","i","o","u","s">>,
      <<"s","e","i","z","u","r","e">>, <<"c","h","o","k","i","n","g">>>>

\* MedicalChatbot.is_emergency
is_emergency(msg) ==
    LET message_lower == lower(msg) IN
    AnyKeywordIn(gate_emergency_keywords, message_lower)

(***************************************************************************)
(* The messages of the triage specification.                               *)
(***************************************************************************)
SeqToSet(s) == {s[i] : i \in 1..Len(s)}

\* Symptom words and qualifiers of the concerning patterns.
PatternWords ==
    {<<"p","a","i","n">>, <<"b","l","e","e","d","i","n","g">>, <<"f","e","v","e","r">>, <<"c","a","n","'","t"," ","s","l","e","e","p">>, <<"l","o","s","t"," ","w","e","i","g","h","t">>,
     <<"3">>, <<"s","e","v","e","r","e">>, <<"u","n","b","e","a","r","a","b","l","e">>, <<"d","a","y","s">>, <<"h","i","g","h">>, <<"v","e","r","y">>,
     <<"k","g">>}

\* The content of a message: the keywords of both lists and the pattern words.
ContentWords ==
    SeqToSet(emergency_keywords) \cup SeqToSet(urgent_keywords)
        \cup PatternWords

\* Filler: a word that matches nothing, the empty string and a line break.
FillerWords == {<<"h","e","l","l","o">>, <<>>, <<"\n">>}

Fragments == ContentWords \cup FillerWords

\* How a message is cased: as the vocabulary is written (lower case), or in
\* upper case.
Casings == {"lower", "upper"}

ApplyCase(c, s) == IF c = "upper" THEN upper(s) ELSE s

RECURSIVE Join(_, _)
\* sep.join(frags)
Join(frags, sep) ==
    IF Len(frags) = 0 THEN <<>>
    ELSE IF Len(frags) = 1 THEN frags[1]
    ELSE frags[1] \o sep \o Join(Tail(frags), sep)

\* The fragment sequences: at most MaxFrags fragments, no three of them
\* content words (a longer message is two content words and filler).
FragSeqs ==
    {f \in UNION {[1..n -> Fragments] : n \in 0..MaxFrags} :
        \A i, j, k \in 1..Len(f) :
            (i < j /\ j < k) =>
                (f[i] \in FillerWords \/ f[j] \in FillerWords
                    \/ f[k] \in FillerWords)}

\* The fragments are joined by blanks.
Messages == {ApplyCase(c, Join(f, <<" ">>)) : c \in Casings, f \in FragSeqs}

(***************************************************************************)
(* The triage specification: one message is classified by both entry       *)
(* points.                                                                 *)
(***************************************************************************)
\* The variables of the components a specification leaves out.
TriageIdle == message = Idle /\ assessment = Idle /\ emergency = Idle
MedsIdle == medications = Idle /\ interaction_result = Idle
DrugsIdle == query = Idle /\ search_results = Idle
BmiIdle == weight_kg = Idle /\ height_q = Idle /\ bmi_result = Idle
RiskIdle ==
    /\ risk_factors = Idle /\ age = Idle /\ risk_result = Idle
    /\ gender = Idle /\ health_tips = Idle
VitalsIdle == vitals = Idle /\ vitals_result = Idle
ChatIdle ==
    /\ api_key = Idle /\ user_profile = Idle /\ messages = Idle
    /\ chat_history = Idle /\ requests = Idle /\ last_turn = Idle

TriageInit ==
    /\ pc = {}
    /\ message \in Messages
    /\ assessment = Pending
    /\ emergency = Pending
    /\ MedsIdle /\ DrugsIdle /\ BmiIdle /\ RiskIdle /\ VitalsIdle /\ ChatIdle

\* The caller runs the full classifier on the message.
AssessUrgency ==
    /\ "assess_urgency" \notin pc
    /\ assessment' = assess_urgency(message)
    /\ pc' = pc \cup {"assess_urgency"}
    /\ UNCHANGED <<message, emergency>>
    /\ UNCHANGED <<meds_vars, drug_vars, bmi_vars, risk_vars, vital_vars, chat_vars>>

\* The caller runs the quick gate on the message.
IsEmergency ==
    /\ "is_emergency" \notin pc
    /\ emergency' = is_emergency(message)
    /\ pc' = pc \cup {"is_emergency"}
    /\ UNCHANGED <<message, assessment>>
    /\ UNCHANGED <<meds_vars, drug_vars, bmi_vars, risk_vars, vital_vars, chat_vars>>

TriageNext == AssessUrgency \/ IsEmergency

TriageSpec == TriageInit /\ [][TriageNext]_vars
(***************************************************************************)
(* medical_utils.py: MedicalUtils.medication_interaction_check.            *)
(***************************************************************************)
\* known_interactions: the dict's keys, as written, and their values.
known_interactions ==
    <<[key |-> <<<<"w","a","r","f","a","r","i","n">>, <<"a","s","p","i","r","i","n">>>>,
       interaction |-> "Increased bleeding risk"],
      [key |-> <<<<"w","a","r","f","a","r","i","n">>, <<"i","b","u","p","r","o","f","e","n">>>>,
       interaction |-> "Increased bleeding risk"],
      [key |-> <<<<"m","e","t","f","o","r","m","i","n">>, <<"a","l","c","o","h","o","l">>>>,
       interaction |-> "Risk of lactic acidosis"],
      [key |-> <<<<"s","t","a","t","i","n","s">>, <<"g","r","a","p","e","f","r","u","i","t">>>>,
       interaction |-> "Increased statin levels"]>>

\* tuple(sorted([med1, med2])): the sort is stable.
sorted_pair(med1, med2) ==
    IF StrLess(med2, med1) THEN <<med2, med1>> ELSE <<med1, med2>>

\* interaction_key in known_interactions
KeyInTable(interaction_key) ==
    \E n \in 1..Len(known_interactions) :
        known_interactions[n].key = interaction_key

\* known_interactions[interaction_key]
TableValue(interaction_key) ==
    LET n == CHOOSE n \in 1..Len(known_interactions) :
                 known_interactions[n].key = interaction_key
    IN known_interactions[n].interaction

\* The key without the sort: the pair in the list's order.
interaction_key_unsorted(med1, med2) == <<med1, med2>>

\* The interaction_key of the inner loop's body.
interaction_key(med1, med2) == sorted_pair(med1, med2)

RECURSIVE InteractionsFrom(_, _, _)
\* The findings the two loops append from the pair (i, j) on: i over the
\* list, j over medications_lower[i+1:].
InteractionsFrom(medications_lower, i, j) ==
    IF i > Len(medications_lower) THEN <<>>
    ELSE IF j > Len(medications_lower)
    THEN InteractionsFrom(medications_lower, i + 1, i + 2)
    ELSE LET med1 == medications_lower[i]
             med2 == medications_lower[j]
             k == interaction_key(med1, med2)
         IN (IF KeyInTable(k)
             THEN <<[medications |-> <<med1, med2>>,
                     interaction |-> TableValue(k)]>>
             ELSE <<>>)
            \o InteractionsFrom(medications_lower, i, j + 1)

\* MedicalUtils.medication_interaction_check, without the fixed disclaimer.
medication_interaction_check(meds) ==
    LET medications_lower == [i \in 1..Len(meds) |-> lower(meds[i])]
        interactions == InteractionsFrom(medications_lower, 1, 2)
    IN [has_interactions |-> Len(interactions) > 0,
        interactions |-> interactions]

\* A medication list has at most MaxMeds names.
MaxMeds == 3

\* The names of the table, a name that is not in it, and a name as a user
\* may capitalise it.
MedNames ==
    {<<"w","a","r","f","a","r","i","n">>, <<"a","s","p","i","r","i","n">>, <<"i","b","u","p","r","o","f","e","n">>, <<"m","e","t","f","o","r","m","i","n">>, <<"a","l","c","o","h","o","l">>,
     <<"s","t","a","t","i","n","s">>, <<"g","r","a","p","e","f","r","u","i","t">>, <<"v","i","t","a","m","i","n"," ","c">>, <<"W","a","r","f","a","r","i","n">>}

MedLists == UNION {[1..n -> MedNames] : n \in 0..MaxMeds}

MedsInit ==
    /\ pc = {}
    /\ medications \in MedLists
    /\ interaction_result = Pending
    /\ TriageIdle /\ DrugsIdle /\ BmiIdle /\ RiskIdle /\ VitalsIdle /\ ChatIdle

MedicationInteractionCheck ==
    /\ pc = {}
    /\ interaction_result' = medication_interaction_check(medications)
    /\ pc' = {"medication_interaction_check"}
    /\ UNCHANGED medications
    /\ UNCHANGED <<triage_vars, drug_vars, bmi_vars, risk_vars, vital_vars, chat_vars>>

MedsNext == MedicationInteractionCheck

MedsSpec == MedsInit /\ [][MedsNext]_vars

(***************************************************************************)
(* medical_utils.py: DrugDatabase.search_drugs.                            *)
(***************************************************************************)
\* self.drugs, in the dict's order: the key, the brand names and the uses.
drugs ==
    <<[generic |-> <<"a","c","e","t","a","m","i","n","o","p","h","e","n">>,
       brand_names |-> <<<<"T","y","l","e","n","o","l">>, <<"P","a","n","a","d","o","l">>>>,
       common_uses |-> <<<<"P","a","i","n"," ","r","e","l","i","e","f">>, <<"F","e","v","e","r"," ","r","e","d","u","c","t","i","o","n">>>>],
      [generic |-> <<"i","b","u","p","r","o","f","e","n">>,
       brand_names |-> <<<<"A","d","v","i","l">>, <<"M","o","t","r","i","n">>>>,
       common_uses |-> <<<<"P","a","i","n"," ","r","e","l","i","e","f">>, <<"I","n","f","l","a","m","m","a","t","i","o","n"," ","r","e","d","u","c","t","i","o","n">>,
                         <<"F","e","v","e","r"," ","r","e","d","u","c","t","i","o","n">>>>],
      [generic |-> <<"a","s","p","i","r","i","n">>,
       brand_names |-> <<<<"B","a","y","e","r">>, <<"B","u","f","f","e","r","i","n">>>>,
       common_uses |-> <<<<"P","a","i","n"," ","r","e","l","i","e","f">>, <<"H","e","a","r","t"," ","a","t","t","a","c","k"," ","p","r","e","v","e","n","t","i","o","n">>,
                         <<"S","t","r","o","k","e"," ","p","r","e","v","e","n","t","i","o","n">>>>]>>

\* The loop that appends on the first brand name that matches, and breaks.
BrandMatch(query_lower, info) ==
    \E b \in 1..Len(info.brand_names) :
        Contains(lower(info.brand_names[b]), query_lower)

\* The loop that appends on the first use that matches, and breaks.
UseMatch(query_lower, info) ==
    \E u \in 1..Len(info.common_uses) :
        Contains(lower(info.common_uses[u]), query_lower)

\* What one iteration of the loop over self.drugs appends: the "name" of
\* each appended record.
search_one(query_lower, info) ==
    IF Contains(info.generic, query_lower)
    THEN <<info.generic>>                       \* append, continue
    ELSE (IF BrandMatch(query_lower, info) THEN <<info.generic>> ELSE <<>>)
         \o (IF UseMatch(query_lower, info) THEN <<info.generic>> ELSE <<>>)

RECURSIVE SearchFrom(_, _)
SearchFrom(query_lower, n) ==
    IF n > Len(drugs) THEN <<>>
    ELSE search_one(query_lower, drugs[n]) \o SearchFrom(query_lower, n + 1)

\* DrugDatabase.search_drugs: the "name" of each record of the result.
search_drugs(q) == SearchFrom(lower(q), 1)

\* A query has at most MaxQueryLen characters.
MaxQueryLen == 2

QueryChars == {"a", "d", "e", "i", "n", "p", "r", "y", "A", "z"}

Queries == UNION {[1..n -> QueryChars] : n \in 0..MaxQueryLen}

DrugsInit ==
    /\ pc = {}
    /\ query \in Queries
    /\ search_results = Pending
    /\ TriageIdle /\ MedsIdle /\ BmiIdle /\ RiskIdle /\ VitalsIdle /\ ChatIdle

SearchDrugs ==
    /\ pc = {}
    /\ search_results' = search_drugs(query)
    /\ pc' = {"search_drugs"}
    /\ UNCHANGED query
    /\ UNCHANGED <<triage_vars, meds_vars, bmi_vars, risk_vars, vital_vars, chat_vars>>

DrugsNext == SearchDrugs

DrugsSpec == DrugsInit /\ [][DrugsNext]_vars

(***************************************************************************)
(* medical_utils.py: MedicalUtils.calculate_bmi.                           *)
(*                                                                         *)
(* Heights are quarters of a metre and weights whole kilograms, which      *)
(* floats hold exactly, so that bmi = weight_kg / height_m ** 2 is the     *)
(* float nearest to the fraction 16 * weight_kg / height_q ^ 2.  With      *)
(* |height_q| < 16 that fraction is either a float itself or further from  *)
(* every cut point and every rounding tie than the float's error, so the   *)
(* comparisons and round(bmi, 1) are computed on the fraction.             *)
(***************************************************************************)
\* The fraction n / d below the cut point tenths / 10.
FracLess(n, d, tenths) == 10 * n < tenths * d

\* round(n / d, 1), in tenths: Python rounds an exact tie to the even digit.
round_tenths(n, d) ==
    LET t == 10 * n
        k == t \div d
        r == t % d
    IN IF 2 * r < d THEN k
       ELSE IF 2 * r > d THEN k + 1
       ELSE IF k % 2 = 0 THEN k ELSE k + 1

\* The if/elif ladder of calculate_bmi, on bmi = n / d.
bmi_category(n, d) ==
    IF FracLess(n, d, 185) THEN "Underweight"
    ELSE IF ~FracLess(n, d, 185) /\ FracLess(n, d, 250) THEN "Normal weight"
    ELSE IF ~FracLess(n, d, 250) /\ FracLess(n, d, 300) THEN "Overweight"
    ELSE "Obese"

\* MedicalUtils.calculate_bmi: the record returned (bmi in tenths), or the
\* exception the division raises.
calculate_bmi(w, hq) ==
    LET n == 16 * w
        d == hq * hq               \* (4 * height_m) ** 2
    IN IF d = 0
       THEN [raised |-> "ZeroDivisionError"]
       ELSE [raised |-> None,
             bmi |-> round_tenths(n, d),
             category |-> bmi_category(n, d)]

\* Weights are 1..MaxWeightKg, heights -MaxHeightQ..MaxHeightQ quarters.
MaxWeightKg == 120
MaxHeightQ == 8

BmiInit ==
    /\ pc = {}
    /\ weight_kg \in 1..MaxWeightKg
    /\ height_q \in (-MaxHeightQ)..MaxHeightQ
    /\ bmi_result = Pending
    /\ TriageIdle /\ MedsIdle /\ DrugsIdle /\ RiskIdle /\ VitalsIdle /\ ChatIdle

CalculateBmi ==
    /\ pc = {}
    /\ bmi_result' = calculate_bmi(weight_kg, height_q)
    /\ pc' = {"calculate_bmi"}
    /\ UNCHANGED <<weight_kg, height_q>>
    /\ UNCHANGED <<triage_vars, meds_vars, drug_vars, risk_vars, vital_vars, chat_vars>>

BmiNext == CalculateBmi

BmiSpec == BmiInit /\ [][BmiNext]_vars

(***************************************************************************)
(* medical_utils.py: HealthAssessment.assess_cardiovascular_risk.          *)
(***************************************************************************)
\* self.risk_factors["cardiovascular"]
cardiovascular ==
    <<"smoking", "high_blood_pressure", "high_cholesterol", "diabetes",
      "family_history", "obesity", "sedentary_lifestyle">>

\* [factor for factor in risk_factors if factor in cardiovascular]
applicable_factors(factors) ==
    SelectSeq(factors, LAMBDA factor : factor \in SeqToSet(cardiovascular))

\* The age factor added to risk_score.
age_factor(a) == IF a > 65 THEN 2 ELSE IF a > 45 THEN 1 ELSE 0

\* The risk_level ladder.
risk_level(risk_score) ==
    IF risk_score = 0 THEN "Low"
    ELSE IF risk_score <= 2 THEN "Moderate"
    ELSE "High"

\* HealthAssessment.assess_cardiovascular_risk, without the recommendations
\* (fixed per risk_level).
assess_cardiovascular_risk(factors, a) ==
    LET applicable == applicable_factors(factors)
        risk_score == Len(applicable) + age_factor(a)
    IN [raised |-> None,
        risk_level |-> risk_level(risk_score),
        risk_score |-> risk_score,
        applicable_factors |-> applicable]

\* tips of generate_health_tips, before the extensions
general_tips ==
    <<"Stay hydrated by drinking plenty of water throughout the day",
      "Aim for 7-9 hours of quality sleep each night",
      "Eat a balanced diet rich in fruits, vegetables, and whole grains",
      "Exercise regularly - aim for at least 150 minutes of moderate activity per week">>

\* The age-specific tips.
age_tips(a) ==
    IF a < 18
    THEN <<"Ensure you're getting enough calcium and vitamin D for bone development",
           "Limit screen time and take regular breaks from devices">>
    ELSE IF 18 <= a /\ a < 40
    THEN <<"Establish healthy habits now to prevent chronic diseases later",
           "Consider regular health screenings as recommended by your doctor">>
    ELSE IF 40 <= a /\ a < 65
    THEN <<"Schedule regular screenings for blood pressure, cholesterol, and diabetes",
           "Consider bone density testing if at risk for osteoporosis">>
    ELSE <<"Focus on fall prevention and balance exercises",
           "Ensure you're up to date with vaccinations including flu and pneumonia">>

\* The gender-specific tips.
gender_tips(g) ==
    IF lower(g) = <<"f","e","m","a","l","e">>
    THEN <<"Don't forget regular mammograms and cervical cancer screenings",
           "Ensure adequate iron intake, especially if menstruating">>
    ELSE IF lower(g) = <<"m","a","l","e">>
    THEN <<"Consider regular prostate health screenings after age 50",
           "Be aware of heart disease risk factors">>
    ELSE <<>>

\* MedicalUtils.generate_health_tips
generate_health_tips(a, g) ==
    [raised |-> None, tips |-> general_tips \o age_tips(a) \o gender_tips(g)]

\* A tag list has at most MaxTags tags.
MaxTags == 3

\* Three tags of the cardiovascular list, one of another list only, and one
\* of no list.
Tags == {"smoking", "obesity", "diabetes", "age_over_45", "unknown"}

TagLists == UNION {[1..n -> Tags] : n \in 0..MaxTags}

\* Ages around the two cut points, a child, an elder, zero and a negative age.
Ages == {-5, 0, 10, 30, 44, 45, 46, 47, 64, 65, 66, 67, 70}

\* The genders of the profile form, and one in another case.
Genders == {<<"F","e","m","a","l","e">>, <<"M","a","l","e">>, <<"O","t","h","e","r">>, <<"m","a","l","e">>}

RiskInit ==
    /\ pc = {}
    /\ risk_factors \in TagLists
    /\ age \in Ages
    /\ risk_result = Pending
    /\ gender \in Genders
    /\ health_tips = Pending
    /\ TriageIdle /\ MedsIdle /\ DrugsIdle /\ BmiIdle /\ VitalsIdle /\ ChatIdle

AssessCardiovascularRisk ==
    /\ "assess_cardiovascular_risk" \notin pc
    /\ risk_result' = assess_cardiovascular_risk(risk_factors, age)
    /\ pc' = pc \cup {"assess_cardiovascular_risk"}
    /\ UNCHANGED <<risk_factors, age, gender, health_tips>>
    /\ UNCHANGED <<triage_vars, meds_vars, drug_vars, bmi_vars, vital_vars, chat_vars>>

GenerateHealthTips ==
    /\ "generate_health_tips" \notin pc
    /\ health_tips' = generate_health_tips(age, gender)
    /\ pc' = pc \cup {"generate_health_tips"}
    /\ UNCHANGED <<risk_factors, age, risk_result, gender>>
    /\ UNCHANGED <<triage_vars, meds_vars, drug_vars, bmi_vars, vital_vars, chat_vars>>

RiskNext == AssessCardiovascularRisk \/ GenerateHealthTips

RiskSpec == RiskInit /\ [][RiskNext]_vars

(***************************************************************************)
(* medical_utils.py: MedicalUtils.validate_vital_signs.                    *)
(*                                                                         *)
(* A dict is a function on its keys.  Temperatures are tenths of a degree: *)
(* a reading and a cut point with the same decimal are the same float.     *)
(***************************************************************************)
EmptyDict == <<>>

\* The ladder with the Normal band's systolic bound inclusive.
bp_status_inclusive(systolic, diastolic) ==
    IF systolic < 90 \/ diastolic < 60 THEN "Low (Hypotension)"
    ELSE IF systolic <= 120 /\ diastolic < 80 THEN "Normal"
    ELSE IF systolic < 130 /\ diastolic < 80 THEN "Elevated"
    ELSE IF systolic < 140 \/ diastolic < 90 THEN "High Blood Pressure Stage 1"
    ELSE IF systolic < 180 \/ diastolic < 120 THEN "High Blood Pressure Stage 2"
    ELSE "Hypertensive Crisis - Seek immediate care"

\* The ladder with the Stage 1 band's diastolic comparison turned round.
bp_status_flipped(systolic, diastolic) ==
    IF systolic < 90 \/ diastolic < 60 THEN "Low (Hypotension)"
    ELSE IF systolic < 120 /\ diastolic < 80 THEN "Normal"
    ELSE IF systolic < 130 /\ diastolic < 80 THEN "Elevated"
    ELSE IF systolic < 140 \/ diastolic > 90 THEN "High Blood Pressure Stage 1"
    ELSE IF systolic < 180 \/ diastolic < 120 THEN "High Blood Pressure Stage 2"
    ELSE "Hypertensive Crisis - Seek immediate care"

\* The blood-pressure ladder.
bp_status(systolic, diastolic) ==
    IF systolic < 90 \/ diastolic < 60 THEN "Low (Hypotension)"
    ELSE IF systolic < 120 /\ diastolic < 80 THEN "Normal"
    ELSE IF systolic < 130 /\ diastolic < 80 THEN "Elevated"
    ELSE IF systolic < 140 \/ diastolic < 90 THEN "High Blood Pressure Stage 1"
    ELSE IF systolic < 180 \/ diastolic < 120 THEN "High Blood Pressure Stage 2"
    ELSE "Hypertensive Crisis - Seek immediate care"

\* The heart-rate ladder.
hr_status(hr) ==
    IF hr < 60 THEN "Low (Bradycardia)"
    ELSE IF hr <= 100 THEN "Normal"
    ELSE "High (Tachycardia)"

\* The ladders with the Normal band's upper bound exclusive.
temp_status_exclusive(temp, temp_unit) ==
    IF upper(temp_unit) = <<"F">>
    THEN IF temp < 970 THEN "Low"
         ELSE IF temp < 995 THEN "Normal"
         ELSE IF temp <= 1003 THEN "Low-grade fever"
         ELSE IF temp <= 1020 THEN "Moderate fever"
         ELSE "High fever - seek medical attention"
    ELSE IF temp < 361 THEN "Low"
         ELSE IF temp < 375 THEN "Normal"
         ELSE IF temp <= 379 THEN "Low-grade fever"
         ELSE IF temp <= 389 THEN "Moderate fever"
         ELSE "High fever - seek medical attention"

\* The temperature ladders, on tenths of a degree.
temp_status(temp, temp_unit) ==
    IF upper(temp_unit) = <<"F">>
    THEN IF temp < 970 THEN "Low"
         ELSE IF temp <= 995 THEN "Normal"
         ELSE IF temp <= 1003 THEN "Low-grade fever"
         ELSE IF temp <= 1020 THEN "Moderate fever"
         ELSE "High fever - seek medical attention"
    ELSE IF temp < 361 THEN "Low"
         ELSE IF temp <= 375 THEN "Normal"
         ELSE IF temp <= 379 THEN "Low-grade fever"
         ELSE IF temp <= 389 THEN "Moderate fever"
         ELSE "High fever - seek medical attention"

\* results["blood_pressure"], set when both fields are in the dict.
blood_pressure_entry(v) ==
    IF "systolic" \in DOMAIN v /\ "diastolic" \in DOMAIN v
    THEN "blood_pressure" :>
            [reading |-> <<v["systolic"], v["diastolic"]>>,
             status |-> bp_status(v["systolic"], v["diastolic"])]
    ELSE EmptyDict

\* results["heart_rate"]
heart_rate_entry(v) ==
    IF "heart_rate" \in DOMAIN v
    THEN "heart_rate" :>
            [reading |-> v["heart_rate"], status |-> hr_status(v["heart_rate"])]
    ELSE EmptyDict

\* results["temperature"]; vitals.get("temp_unit", "F")
temperature_entry(v) ==
    IF "temperature" \in DOMAIN v
    THEN LET temp_unit == IF "temp_unit" \in DOMAIN v
                          THEN v["temp_unit"] ELSE <<"F">>
         IN "temperature" :>
                [reading |-> <<v["temperature"], temp_unit>>,
                 status |-> temp_status(v["temperature"], temp_unit)]
    ELSE EmptyDict

\* MedicalUtils.validate_vital_signs: no path of it raises on numeric
\* fields, so the call returns the results dict.
validate_vital_signs(v) ==
    [raised |-> None,
     results |-> blood_pressure_entry(v) @@ heart_rate_entry(v)
                    @@ temperature_entry(v)]

\* Readings lie within Margin of a cut point of their ladder (temperatures: in tenths).
Margin == 1

Near(cuts, margin) == {c + k : c \in cuts, k \in (-margin)..margin}

SystolicValues == Near({90, 120, 130, 140, 180}, Margin) \cup {115, 185}
DiastolicValues == Near({60, 80, 90, 120}, Margin) \cup {75, 125}
HeartRates == Near({60, 100}, Margin) \cup {72}
TemperaturesF == Near({970, 995, 1003, 1020}, Margin) \cup {986}
TemperaturesC == Near({361, 375, 379, 389}, Margin) \cup {370}
TempUnits == {<<"F">>, <<"f">>, <<"C">>, <<"c">>}

\* The dicts with the key k absent or set to a value of vs.
Optional(k, vs) == {EmptyDict} \cup {k :> x : x \in vs}

\* Blood-pressure dicts, with or without a heart rate; and dicts of the
\* other vitals.
VitalsDicts ==
    {s @@ d @@ h :
        s \in Optional("systolic", SystolicValues),
        d \in Optional("diastolic", DiastolicValues),
        h \in Optional("heart_rate", {72})}
    \cup
    {h @@ t @@ u :
        h \in Optional("heart_rate", HeartRates),
        t \in Optional("temperature", TemperaturesF \cup TemperaturesC),
        u \in Optional("temp_unit", TempUnits)}

VitalsInit ==
    /\ pc = {}
    /\ vitals \in VitalsDicts
    /\ vitals_result = Pending
    /\ TriageIdle /\ MedsIdle /\ DrugsIdle /\ BmiIdle /\ RiskIdle /\ ChatIdle

ValidateVitalSigns ==
    /\ pc = {}
    /\ vitals_result' = validate_vital_signs(vitals)
    /\ pc' = {"validate_vital_signs"}
    /\ UNCHANGED vitals
    /\ UNCHANGED <<triage_vars, meds_vars, drug_vars, bmi_vars, risk_vars, chat_vars>>

VitalsNext == ValidateVitalSigns

VitalsSpec == VitalsInit /\ [][VitalsNext]_vars

(***************************************************************************)
(* app.py: main, one script run per user event.                            *)
(*                                                                         *)
(* Streamlit runs main() from the top on every event, with the widget     *)
(* that caused the run set: a sidebar field, one button, or the chat       *)
(* input.  An action is the run one event causes, to its st.rerun().       *)
(***************************************************************************)
\* An optional value: Python's None, or a value.
NoValue == <<>>
Some(x) == <<x>>

\* chatbot.system_prompt and get_emergency_response(): fixed texts.
system_prompt == <<"Y","o","u"," ","a","r","e"," ","a"," ","h","e","l","p","f","u","l"," ","m","e","d","i","c","a","l"," ","a","s","s","i","s","t","a","n","t"," ","c","h","a","t","b","o","t",".">>
emergency_response == <<"E","M","E","R","G","E","N","C","Y"," ","A","L","E","R","T",":"," ","C","a","l","l"," ","9","1","1"," ","i","m","m","e","d","i","a","t","e","l","y">>

\* quick_topics
quick_topics ==
    <<<<"G","e","n","e","r","a","l"," ","h","e","a","l","t","h"," ","c","h","e","c","k","u","p"," ","a","d","v","i","c","e">>, <<"S","y","m","p","t","o","m","s"," ","o","f"," ","c","o","m","m","o","n"," ","c","o","l","d">>,
      <<"W","h","e","n"," ","t","o"," ","s","e","e"," ","a"," ","d","o","c","t","o","r">>, <<"H","e","a","l","t","h","y"," ","d","i","e","t"," ","t","i","p","s">>,
      <<"E","x","e","r","c","i","s","e"," ","r","e","c","o","m","m","e","n","d","a","t","i","o","n","s">>, <<"S","t","r","e","s","s"," ","m","a","n","a","g","e","m","e","n","t">>>>

\* What the user may type: a message the gate intercepts, one only the
\* full classifier calls an emergency, and one neither does.
ChatInputs == {<<"I"," ","h","a","v","e"," ","c","h","e","s","t"," ","p","a","i","n">>, <<"H","I","G","H"," ","F","E","V","E","R">>, <<"h","e","l","l","o">>}

\* What get_response may return: the completion's text, or the text of
\* an error.
Responses == {<<"D","r","i","n","k"," ","w","a","t","e","r",".">>, <<"E","r","r","o","r",":"," ","5","0","0"," ","-"," ">>}

\* The sidebar's fields.
ApiKeys == {"", "sk-or-key"}
AgeInputs == {0, 30}
GenderInputs == {"Not specified", "Female"}

\* A session sees at most MaxRuns events.
MaxRuns == 4

Last(s) == s[Len(s)]

\* initialize_session_state, and the empty API key field.
ChatInit ==
    /\ pc = {}
    /\ api_key = ""
    /\ user_profile = [age |-> NoValue, gender |-> NoValue]
    /\ messages = <<>>
    /\ chat_history = <<>>
    /\ requests = <<>>
    /\ last_turn = [n |-> 0, kind |-> "start", input |-> <<>>]
    /\ TriageIdle /\ MedsIdle /\ DrugsIdle /\ BmiIdle /\ RiskIdle /\ VitalsIdle

\* main returns at the sidebar while the API key field is empty: no widget
\* below it exists.
Rendered == api_key # "" /\ last_turn.n < MaxRuns

NonChatUnchanged ==
    UNCHANGED <<pc, triage_vars, meds_vars, drug_vars, bmi_vars, risk_vars, vital_vars>>

\* The user edits the API key field.
SetApiKey ==
    /\ last_turn.n < MaxRuns
    /\ \E k \in ApiKeys :
        /\ k # api_key
        /\ api_key' = k
    /\ last_turn' = [n |-> last_turn.n + 1, kind |-> "api_key", input |-> <<>>]
    /\ UNCHANGED <<user_profile, messages, chat_history, requests>>
    /\ NonChatUnchanged

\* The user edits the profile fields: age if age > 0 else None, and
\* gender if gender != "Not specified" else None.
SetProfile ==
    /\ Rendered
    /\ \E a \in AgeInputs, g \in GenderInputs :
        LET p == [age |-> IF a > 0 THEN Some(a) ELSE NoValue,
                  gender |-> IF g # "Not specified" THEN Some(g) ELSE NoValue]
        IN /\ p # user_profile
           /\ user_profile' = p
    /\ last_turn' = [n |-> last_turn.n + 1, kind |-> "profile", input |-> <<>>]
    /\ UNCHANGED <<api_key, messages, chat_history, requests>>
    /\ NonChatUnchanged

\* A quick-topic button: the topic is appended as a user message, and the
\* script reruns.
QuickTopic ==
    /\ Rendered
    /\ \E t \in 1..Len(quick_topics) :
        /\ messages' = Append(messages, [role |-> "user", content |-> quick_topics[t]])
        /\ last_turn' = [n |-> last_turn.n + 1, kind |-> "topic",
                         input |-> quick_topics[t]]
    /\ UNCHANGED <<api_key, user_profile, chat_history, requests>>
    /\ NonChatUnchanged

\* A clear-chat button that empties the transcript only.
ClearChat_transcript_only ==
    /\ Rendered
    /\ messages' = <<>>
    /\ last_turn' = [n |-> last_turn.n + 1, kind |-> "clear", input |-> <<>>]
    /\ UNCHANGED <<api_key, user_profile, chat_history, requests>>
    /\ NonChatUnchanged

\* The clear-chat button.
ClearChat ==
    /\ Rendered
    /\ messages' = <<>>
    /\ chat_history' = <<>>
    /\ last_turn' = [n |-> last_turn.n + 1, kind |-> "clear", input |-> <<>>]
    /\ UNCHANGED <<api_key, user_profile, requests>>
    /\ NonChatUnchanged

\* A turn handler that forwards every input.
intercepted_never(user_input) == FALSE

\* A turn handler that intercepts an input only when it is a keyword.
intercepted_exact(user_input) ==
    user_input \in SeqToSet(gate_emergency_keywords)

\* if chatbot.is_emergency(user_input)
intercepted(user_input) == is_emergency(user_input)

\* api_messages: the system prompt, the profile context when the profile
\* has an age or a gender, and the whole transcript.
api_messages(profile, transcript) ==
    <<[role |-> "system", content |-> system_prompt]>>
    \o (IF profile.age # NoValue \/ profile.gender # NoValue
        THEN <<[role |-> "system",
                content |-> <<"User profile", profile.age, profile.gender>>]>>
        ELSE <<>>)
    \o transcript

\* The chat input: the turn handler, to its st.rerun().  The endpoint's
\* answer is any of Responses.
ChatInput ==
    /\ Rendered
    /\ \E user_input \in ChatInputs, response \in Responses :
        LET with_user == Append(messages, [role |-> "user", content |-> user_input])
            reply == IF intercepted(user_input) THEN emergency_response
                     ELSE response
        IN /\ messages' = Append(with_user, [role |-> "assistant", content |-> reply])
           /\ requests' =
                IF intercepted(user_input) THEN requests
                ELSE Append(requests,
                            [messages |-> api_messages(user_profile, with_user),
                             response |-> response])
           /\ chat_history' =
                Append(chat_history, [user |-> user_input, bot |-> reply])
           /\ last_turn' = [n |-> last_turn.n + 1, kind |-> "chat_input",
                            input |-> user_input]
    /\ UNCHANGED <<api_key, user_profile>>
    /\ NonChatUnchanged

ChatNext == SetApiKey \/ SetProfile \/ QuickTopic \/ ClearChat \/ ChatInput

ChatSpec == ChatInit /\ [][ChatNext]_vars

(***************************************************************************)
(* The claims.                                                             *)
(***************************************************************************)
Returned(call) == call \in pc

HasEmergencyKeyword(msg) == AnyKeywordIn(emergency_keywords, lower(msg))
HasUrgentKeyword(msg) == AnyKeywordIn(urgent_keywords, lower(msg))
HasConcerningPattern(msg) == check_concerning_patterns(lower(msg))

\* C1: whenever the message contains, in any letter case, a keyword of the
\* classifier's emergency keyword list, assess_urgency returns EMERGENCY and
\* is_emergency returns true for the same message.
C1_GateAgreesWithClassifier ==
    (Returned("assess_urgency") /\ Returned("is_emergency")
        /\ HasEmergencyKeyword(message))
    => (assessment = "EMERGENCY" /\ emergency = TRUE)

\* How often a name occurs in a list, whatever its case.
Occurrences(meds, name) ==
    Cardinality({i \in 1..Len(meds) : lower(meds[i]) = name})

\* The findings of a result for the unordered pair {a, b}.
FindingsFor(result, a, b) ==
    {n \in 1..Len(result.interactions) :
        {result.interactions[n].medications[1],
         result.interactions[n].medications[2]} = {a, b}}

\* C2: a medication list that contains both names of a pair of the
\* interaction table, in either order and in any letter case, yields
\* has_interactions = true and exactly one finding, which carries that
\* pair's description.
C2_ListedPairsFound ==
    Returned("medication_interaction_check") =>
        \A n \in 1..Len(known_interactions) :
            LET a == known_interactions[n].key[1]
                b == known_interactions[n].key[2]
            IN (Occurrences(medications, a) = 1 /\ Occurrences(medications, b) = 1)
               => /\ interaction_result.has_interactions
                  /\ Cardinality(FindingsFor(interaction_result, a, b)) = 1
                  /\ \A f \in FindingsFor(interaction_result, a, b) :
                        interaction_result.interactions[f].interaction
                            = known_interactions[n].interaction

\* The findings of a result, each an unordered pair of lower-cased names and
\* a description.
FindingSet(result) ==
    {[pair |-> {result.interactions[n].medications[1],
                result.interactions[n].medications[2]},
      interaction |-> result.interactions[n].interaction] :
        n \in 1..Len(result.interactions)}

Reorderings(n) == {p \in [1..n -> 1..n] : \A i, j \in 1..n : p[i] = p[j] => i = j}

\* A list with the case of its names changed: all lower, all upper, or
\* every other name upper.
Recasings == {"keep", "lower", "upper", "alternate"}

Recase(c, meds) ==
    [i \in 1..Len(meds) |->
        CASE c = "keep" -> meds[i]
          [] c = "lower" -> lower(meds[i])
          [] c = "upper" -> upper(meds[i])
          [] c = "alternate" -> IF i % 2 = 1 THEN upper(meds[i]) ELSE meds[i]]

\* C3: any permutation of the medication list and any change of letter case
\* of its names gives the same has_interactions and the same set of findings.
C3_OrderAndCaseIndependent ==
    Returned("medication_interaction_check") =>
        \A p \in Reorderings(Len(medications)), c \in Recasings :
            LET other == Recase(c, [i \in 1..Len(medications) |-> medications[p[i]]])
                r == medication_interaction_check(other)
            IN /\ r.has_interactions = interaction_result.has_interactions
               /\ FindingSet(r) = FindingSet(interaction_result)

\* The check has returned for a list that names a pair of the table, one of
\* the two with capitals, the second name before the first.
C3_Witness ==
    /\ Returned("medication_interaction_check")
    /\ \E i, j \in 1..Len(medications) :
        /\ j < i
        /\ medications[i] = <<"W","a","r","f","a","r","i","n">>
        /\ medications[j] = <<"a","s","p","i","r","i","n">>
    /\ \E p \in Reorderings(Len(medications)) :
        [i \in 1..Len(medications) |-> medications[p[i]]] # medications

\* C4: search_drugs returns at most one record per generic name.
C4_OneRecordPerDrug ==
    Returned("search_drugs") =>
        \A i, j \in 1..Len(search_results) :
            search_results[i] = search_results[j] => i = j

\* C5: calculate_bmi fails for every height_m <= 0 and returns no record.
C5_NonPositiveHeightRejected ==
    (Returned("calculate_bmi") /\ height_q <= 0) => bmi_result.raised # None

\* The score and level of the claim: the distinct supplied tags of the
\* cardiovascular set, plus the age bonus.
ClaimedScore(factors, a) ==
    Cardinality(SeqToSet(factors) \cap SeqToSet(cardiovascular))
        + (IF a > 65 THEN 2 ELSE IF a > 45 /\ a <= 65 THEN 1 ELSE 0)

ClaimedLevel(score) ==
    CASE score = 0 -> "Low"
      [] score \in {1, 2} -> "Moderate"
      [] score >= 3 -> "High"

\* C6: risk_score is the number of distinct supplied tags of the
\* cardiovascular set plus the age bonus, and risk_level is Low at 0,
\* Moderate at 1 or 2, High from 3 on.
C6_ScoreCountsDistinctTags ==
    Returned("assess_cardiovascular_risk") =>
        /\ risk_result.risk_score = ClaimedScore(risk_factors, age)
        /\ risk_result.risk_level = ClaimedLevel(ClaimedScore(risk_factors, age))

\* C7: a message with an emergency and an urgent keyword is EMERGENCY; a
\* message with an urgent keyword and a concerning pattern but no emergency
\* keyword is URGENT.
C7_TierPrecedence ==
    Returned("assess_urgency") =>
        /\ (HasEmergencyKeyword(message) /\ HasUrgentKeyword(message))
            => assessment = "EMERGENCY"
        /\ (HasUrgentKeyword(message) /\ HasConcerningPattern(message)
                /\ ~HasEmergencyKeyword(message))
            => assessment = "URGENT"

\* An urgent keyword and a concerning pattern, no emergency keyword, and the
\* classifier said URGENT.
C7_Witness ==
    /\ Returned("assess_urgency")
    /\ HasUrgentKeyword(message)
    /\ HasConcerningPattern(message)
    /\ ~HasEmergencyKeyword(message)
    /\ assessment = "URGENT"

\* An emergency keyword together with another, urgent keyword, classified
\* EMERGENCY.
C7_WitnessEmergency ==
    /\ Returned("assess_urgency")
    /\ Contains(lower(message), <<"c","h","e","s","t"," ","p","a","i","n">>)
    /\ Contains(lower(message), <<"c","o","n","f","u","s","i","o","n">>)
    /\ assessment = "EMERGENCY"

\* C8: a chat input the gate matches sends no request and is answered by
\* the fixed emergency response; any other chat input sends exactly one
\* request, whose returned text is the assistant message appended.
C8_GateIntercepts ==
    [][(last_turn'.n # last_turn.n /\ last_turn'.kind = "chat_input") =>
        /\ Len(messages') = Len(messages) + 2
        /\ messages'[Len(messages) + 1] =
                [role |-> "user", content |-> last_turn'.input]
        /\ Last(messages').role = "assistant"
        /\ IF is_emergency(last_turn'.input)
           THEN /\ requests' = requests
                /\ Last(messages').content = emergency_response
           ELSE /\ Len(requests') = Len(requests) + 1
                /\ SubSeq(requests', 1, Len(requests)) = requests
                /\ Last(messages').content = Last(requests').response
      ]_vars

\* A turn the gate intercepted, after an earlier turn that was forwarded.
C8_Witness ==
    /\ last_turn.kind = "chat_input"
    /\ is_emergency(last_turn.input)
    /\ Len(requests) = 1
    /\ Len(messages) = 4
    /\ Last(messages).content = emergency_response

\* C9: validate_vital_signs signals an error when the record carries only
\* one of the two blood-pressure fields.
C9_HalfBloodPressureRejected ==
    (Returned("validate_vital_signs")
        /\ ("systolic" \in DOMAIN vitals) # ("diastolic" \in DOMAIN vitals))
    => vitals_result.raised # None

\* The bands of the claim's ladder, in order.
ClaimedBands(s, d) ==
    <<[hit |-> s < 90 \/ d < 60, status |-> "Low (Hypotension)"],
      [hit |-> s < 120 /\ d < 80, status |-> "Normal"],
      [hit |-> s < 130 /\ d < 80, status |-> "Elevated"],
      [hit |-> s < 140 \/ d < 90, status |-> "High Blood Pressure Stage 1"],
      [hit |-> s < 180 \/ d < 120, status |-> "High Blood Pressure Stage 2"],
      [hit |-> TRUE, status |-> "Hypertensive Crisis - Seek immediate care"]>>

FirstBand(s, d) ==
    LET bands == ClaimedBands(s, d)
        first == CHOOSE n \in 1..Len(bands) :
                    bands[n].hit /\ \A m \in 1..(n - 1) : ~bands[m].hit
    IN bands[first].status

\* C10: for every pair of readings the blood-pressure status is that of the
\* first matching band of the ladder; 115/75 is Normal and 185/125 is
\* Hypertensive Crisis.
C10_BloodPressureLadder ==
    (Returned("validate_vital_signs")
        /\ "systolic" \in DOMAIN vitals /\ "diastolic" \in DOMAIN vitals)
    => /\ "blood_pressure" \in DOMAIN vitals_result.results
       /\ vitals_result.results["blood_pressure"].status
            = FirstBand(vitals["systolic"], vitals["diastolic"])
       /\ (vitals["systolic"] = 115 /\ vitals["diastolic"] = 75)
            => vitals_result.results["blood_pressure"].status = "Normal"
       /\ (vitals["systolic"] = 185 /\ vitals["diastolic"] = 125)
            => vitals_result.results["blood_pressure"].status
                    = "Hypertensive Crisis - Seek immediate care"

\* The interpreter has returned for the reading 185/125.
C10_Witness ==
    /\ Returned("validate_vital_signs")
    /\ "systolic" \in DOMAIN vitals /\ "diastolic" \in DOMAIN vitals
    /\ vitals["systolic"] = 185 /\ vitals["diastolic"] = 125
    /\ vitals_result.results["blood_pressure"].status
            = "Hypertensive Crisis - Seek immediate care"

\* The temperature ladder of the claim, on tenths of a degree, for the four
\* cut points of a unit.
ClaimedTempStatus(temp, cuts) ==
    IF temp < cuts[1] THEN "Low"
    ELSE IF temp >= cuts[1] /\ temp <= cuts[2] THEN "Normal"
    ELSE IF temp > cuts[2] /\ temp <= cuts[3] THEN "Low-grade fever"
    ELSE IF temp > cuts[3] /\ temp <= cuts[4] THEN "Moderate fever"
    ELSE "High fever - seek medical attention"

\* C11: with the unit absent or F the status is Low below 97.0, Normal to
\* 99.5, Low-grade fever to 100.3, Moderate fever to 102.0 and High fever
\* above; with the unit C the cut points are 36.1, 37.5, 37.9 and 38.9.
\* 99.5 F is Normal and 99.6 F is Low-grade fever.
C11_TemperatureLadder ==
    (Returned("validate_vital_signs") /\ "temperature" \in DOMAIN vitals)
    => LET temp == vitals["temperature"]
           status == vitals_result.results["temperature"].status
           unitF == "temp_unit" \notin DOMAIN vitals \/ vitals["temp_unit"] = <<"F">>
           unitC == "temp_unit" \in DOMAIN vitals /\ vitals["temp_unit"] = <<"C">>
       IN /\ unitF => status = ClaimedTempStatus(temp, <<970, 995, 1003, 1020>>)
          /\ unitC => status = ClaimedTempStatus(temp, <<361, 375, 379, 389>>)
          /\ (unitF /\ temp = 995) => status = "Normal"
          /\ (unitF /\ temp = 996) => status = "Low-grade fever"

\* The interpreter has returned for 99.6 with no unit given.
C11_Witness ==
    /\ Returned("validate_vital_signs")
    /\ "temperature" \in DOMAIN vitals
    /\ "temp_unit" \notin DOMAIN vitals
    /\ vitals["temperature"] = 996
    /\ vitals_result.results["temperature"].status = "Low-grade fever"

\* The symptoms of the claim, each a chain of words, and their qualifiers;
\* every one may also be qualified by a number.
ClaimedSymptoms ==
    <<[words |-> <<<<"p","a","i","n">>>>,
       qualifiers |-> {<<"t","e","n">>, <<"s","e","v","e","r","e">>, <<"u","n","b","e","a","r","a","b","l","e">>}],
      [words |-> <<<<"b","l","e","e","d","i","n","g">>>>, qualifiers |-> {<<"h","o","u","r","s">>, <<"d","a","y","s">>}],
      [words |-> <<<<"f","e","v","e","r">>>>, qualifiers |-> {<<"h","i","g","h">>, <<"v","e","r","y">>}],
      [words |-> <<<<"c","a","n","'","t">>, <<"s","l","e","e","p">>>>, qualifiers |-> {<<"d","a","y","s">>, <<"w","e","e","k","s">>}],
      [words |-> <<<<"l","o","s","t">>, <<"w","e","i","g","h","t">>>>,
       qualifiers |-> {<<"p","o","u","n","d","s">>, <<"k","g">>}]>>

\* One of the qualifiers, or a digit, is at position i of s.
QualifierAt(s, i, qualifiers) ==
    \/ \E q \in qualifiers : At(s, i, q)
    \/ i <= Len(s) /\ s[i] \in Digits

\* The symptom and a qualifier both occur in the message, in any order.
CoOccur(s, symptom) ==
    /\ \A w \in 1..Len(symptom.words) : Contains(s, symptom.words[w])
    /\ \E i \in 1..Len(s) : QualifierAt(s, i, symptom.qualifiers)

SameLine(s, from, to) == \A x \in from..(to - 1) : s[x] # "\n"

RECURSIVE ChainFrom(_, _, _, _)
\* The words w.. of the symptom and then a qualifier occur from position i
\* on, in this order, with no line break from one to the next.
ChainFrom(s, i, symptom, w) ==
    IF w > Len(symptom.words)
    THEN \E j \in i..Len(s) :
            SameLine(s, i, j) /\ QualifierAt(s, j, symptom.qualifiers)
    ELSE \E j \in i..Len(s) :
            /\ (w > 1 => SameLine(s, i, j))
            /\ At(s, j, symptom.words[w])
            /\ ChainFrom(s, j + Len(symptom.words[w]), symptom, w + 1)

\* The symptom is followed by a qualifier on the same line.
Followed(s, symptom) == ChainFrom(s, 1, symptom, 1)

\* C12 as stated: a message with no emergency and no urgent keyword in
\* which a symptom co-occurs with its qualifier, whichever comes first, is
\* MODERATE.
C12_CoOccurrenceIsModerate ==
    (Returned("assess_urgency")
        /\ ~HasEmergencyKeyword(message) /\ ~HasUrgentKeyword(message)
        /\ \E n \in 1..Len(ClaimedSymptoms) :
              CoOccur(lower(message), ClaimedSymptoms[n]))
    => assessment = "MODERATE"

\* C12, amended: a message with no emergency and no urgent keyword in which
\* a symptom is followed, on the same line, by its qualifier is MODERATE.
C12_SymptomThenQualifierIsModerate ==
    (Returned("assess_urgency")
        /\ ~HasEmergencyKeyword(message) /\ ~HasUrgentKeyword(message)
        /\ \E n \in 1..Len(ClaimedSymptoms) :
              Followed(lower(message), ClaimedSymptoms[n]))
    => assessment = "MODERATE"

\* "bleeding" and then "days", and the classifier said MODERATE.
C12_Witness ==
    /\ Returned("assess_urgency")
    /\ Followed(lower(message), ClaimedSymptoms[2])
    /\ Contains(lower(message), <<"d","a","y","s">>)
    /\ assessment = "MODERATE"

\* The four tiers.
Tiers == {"EMERGENCY", "URGENT", "MODERATE", "LOW"}

\* The message is empty or has white space only.
Blank(s) == \A i \in 1..Len(s) : s[i] \in {" ", "\n"}

\* C14: the classifier returns one of the four tiers for every message, the
\* empty and the blank ones included, and returns LOW exactly when the
\* message has no emergency keyword, no urgent keyword and no concerning
\* pattern.
C14_TotalWithLowDefault ==
    Returned("assess_urgency")
    => /\ assessment \in Tiers
       /\ assessment = "LOW"
            <=> (/\ ~HasEmergencyKeyword(message)
                 /\ ~HasUrgentKeyword(message)
                 /\ ~HasConcerningPattern(message))
       /\ Blank(message) => assessment = "LOW"

\* A message of white space only was classified LOW.
C14_Witness ==
    /\ Returned("assess_urgency")
    /\ Len(message) > 0
    /\ Blank(message)
    /\ assessment = "LOW"

\* C19: the message that is exactly an urgent keyword is classified URGENT.
C19_UrgentKeywordAloneIsUrgent ==
    (Returned("assess_urgency") /\ message \in SeqToSet(urgent_keywords))
    => assessment = "URGENT"

\* C13: a negative age is reported as a validation error by the risk
\* assessment and by the health tips; neither returns a result for it.
C13_NegativeAgeRejected ==
    /\ (Returned("assess_cardiovascular_risk") /\ age < 0)
        => risk_result.raised # None
    /\ (Returned("generate_health_tips") /\ age < 0)
        => health_tips.raised # None

\* The user messages of a request.
UserMessages(request) ==
    {request.messages[i].content :
        i \in {j \in 1..Len(request.messages) :
                    request.messages[j].role = "user"}}

\* C15 as stated: no request posted to the completion endpoint contains a
\* user message for which is_emergency is true.
C15_NoEmergencyMessageForwarded ==
    \A r \in 1..Len(requests) :
        \A content \in UserMessages(requests[r]) : ~is_emergency(content)

\* C15, amended: no request is posted for an input for which is_emergency
\* is true: the last message of every request is a user message for which
\* is_emergency is false.  The messages before it are the transcript, the
\* intercepted inputs of earlier turns included.
C15_NoRequestForEmergencyInput ==
    \A r \in 1..Len(requests) :
        LET last == Last(requests[r].messages)
        IN /\ last.role = "user"
           /\ ~is_emergency(last.content)

\* A request posted for an input the gate lets through, whose history has
\* an input the gate intercepted.
C15_Witness ==
    /\ last_turn.kind = "chat_input"
    /\ ~is_emergency(last_turn.input)
    /\ Len(requests) > 0
    /\ Last(Last(requests).messages).content = last_turn.input
    /\ \E content \in UserMessages(Last(requests)) : is_emergency(content)

\* C16: the transcript alternates between the roles and starts with a user
\* message: every user message is followed at once by an assistant
\* message, and no two user messages are adjacent.
C16_TranscriptAlternates ==
    /\ Len(messages) % 2 = 0
    /\ \A i \in 1..Len(messages) :
          messages[i].role = IF i % 2 = 1 THEN "user" ELSE "assistant"

\* The assistant messages of the transcript, in order.
AssistantMessages == SelectSeq(messages, LAMBDA m : m.role = "assistant")

\* C17: chat_history has as many entries as the transcript has assistant
\* messages; a chat input adds exactly one entry, of the input and of the
\* assistant message appended in the same turn; clearing the chat empties
\* both.
C17_HistoryMatchesTranscript ==
    /\ Len(chat_history) = Len(AssistantMessages)
    /\ [][/\ Len(chat_history') = Len(AssistantMessages')
          /\ (last_turn'.n # last_turn.n /\ last_turn'.kind = "chat_input")
                => /\ Len(chat_history') = Len(chat_history) + 1
                   /\ SubSeq(chat_history', 1, Len(chat_history)) = chat_history
                   /\ Last(chat_history').user = last_turn'.input
                   /\ Last(messages').role = "assistant"
                   /\ Last(chat_history').bot = Last(messages').content
          /\ (last_turn'.n # last_turn.n /\ last_turn'.kind = "clear")
                => messages' = <<>> /\ chat_history' = <<>>
          /\ (last_turn'.n # last_turn.n
                /\ last_turn'.kind \notin {"chat_input", "clear"})
                => chat_history' = chat_history
         ]_vars

\* The chat was cleared after a turn, and the next turn was answered.
C17_Witness ==
    /\ last_turn.kind = "chat_input"
    /\ last_turn.n = 4
    /\ Len(chat_history) = 1
    /\ Len(messages) = 2
    /\ chat_history[1].bot = messages[2].content

\* C18: the category is the band of the returned bmi: a returned bmi of
\* 18.5 or more is not Underweight, one of 25.0 or more is not Normal
\* weight, and one of 30.0 or more is Obese.
C18_CategoryOfReturnedBmi ==
    (Returned("calculate_bmi") /\ height_q > 0)
    => /\ bmi_result.bmi >= 185 => bmi_result.category # "Underweight"
       /\ bmi_result.bmi >= 250 => bmi_result.category # "Normal weight"
       /\ bmi_result.bmi >= 300 => bmi_result.category = "Obese"

\* The statuses of the ladder, from the least to the most severe.
Severities ==
    <<"Low (Hypotension)", "Normal", "Elevated", "High Blood Pressure Stage 1",
      "High Blood Pressure Stage 2", "Hypertensive Crisis - Seek immediate care">>

Severity(status) == CHOOSE n \in 1..Len(Severities) : Severities[n] = status

\* C20: the blood-pressure status never falls in severity when the systolic
\* reading is raised with the diastolic one fixed, or the diastolic reading
\* is raised with the systolic one fixed.
C20_BloodPressureMonotone ==
    (Returned("validate_vital_signs")
        /\ "systolic" \in DOMAIN vitals /\ "diastolic" \in DOMAIN vitals)
    => LET systolic == vitals["systolic"]
           diastolic == vitals["diastolic"]
           status == vitals_result.results["blood_pressure"].status
       IN /\ status \in SeqToSet(Severities)
          /\ \A higher \in SystolicValues :
                higher >= systolic
                => Severity(bp_status(higher, diastolic)) >= Severity(status)
          /\ \A higher \in DiastolicValues :
                higher >= diastolic
                => Severity(bp_status(systolic, higher)) >= Severity(status)

\* The interpreter has returned Stage 2 for a reading with the diastolic
\* value in the crisis range, one step of systolic below the crisis.
C20_Witness ==
    /\ Returned("validate_vital_signs")
    /\ "systolic" \in DOMAIN vitals /\ "diastolic" \in DOMAIN vitals
    /\ vitals["systolic"] = 179 /\ vitals["diastolic"] = 120
    /\ vitals_result.results["blood_pressure"].status
            = "High Blood Pressure Stage 2"
    /\ bp_status(180, 120) = "Hypertensive Crisis - Seek immediate care"

====
